---------------------------- MODULE Spec2Model ----------------------------
(* A model of src/lab6.py: the exception classes, setup_logger, the logged  *)
(* decorator and the XMLHandler methods, driven by a host that loads the     *)
(* module, constructs handlers and calls their methods, and by an            *)
(* environment that changes the file behind a handler.                       *)
(*                                                                           *)
(* Strings of the source that are not ASCII are written in English here:     *)
(*   "Некоректний XML"          -> "invalid XML"                             *)
(*   "Помилка доступу/читання"  -> "access/read error"                       *)
(*   "Помилка запису"           -> "write error"                             *)
(*   "Метод <m> виконано."      -> a line of kind "completed"                *)
(*   "ПОМИЛКА: ... викликав"    -> a line of kind "caused"                   *)
EXTENDS Integers, Sequences, FiniteSets, TLC

VARIABLES
    loaded,     \* "no" | "crashed" | "ok": how far the module body got
    globals,    \* names bound in the module's global namespace that setup_logger reads
    handlers,   \* logging.getLogger('FileLogger').handlers, a sequence of handler kinds
    logFile,    \* whether file.operations.txt exists
    fs,         \* the file system: path -> file
    handles,    \* the XMLHandler objects constructed so far
    last        \* the host's last call: what was called, with what, and what came back

vars == <<loaded, globals, handlers, logFile, fs, handles, last>>

-----------------------------------------------------------------------------
(* Bounds *)

\* The most children the root of a document may have (guards append and write).
MaxChildren == 2

-----------------------------------------------------------------------------
(* Values *)

\* Python's None, where a text is expected (a text is a sequence of characters).
None == <<"None">>

\* Paths the host uses; only EnvPaths ever hold a file.
Paths == {"config.xml", "non_existent_file.xml"}
EnvPaths == {"config.xml"}

\* An element of xml.etree.ElementTree: tag, attrib (a set of <<name, value>>),
\* text (None or a sequence of characters) and children.
Element(tag, attrib, text, children) ==
    [tag |-> tag, attrib |-> attrib, text |-> text, children |-> children]

\* Stands for "no element" (a call that returned None, or raised).
NoElement == Element("<none>", {}, None, <<>>)

\* An exception object: its class, the path and cause its message embeds,
\* and the function that constructed it (its identity, for "the same exception").
Exception(cls, path, prefix, original, raisedBy) ==
    [cls |-> cls, path |-> path, prefix |-> prefix, original |-> original,
     raisedBy |-> raisedBy]

NoException == Exception("<none>", "", "", "", "")

\* FileNotFound.__init__: the message embeds the path.
FileNotFound(path) == Exception("FileNotFound", path, "file not found at path", "", "__init__")

\* FileCorruptedError.__init__: the message embeds the path and the original error.
FileCorruptedError(path, prefix, original, raisedBy) ==
    Exception("FileCorruptedError", path, prefix, original, raisedBy)

\* The class hierarchy of lines 9-34: both are subclasses of FileHandlerException.
IsFileHandlerException(e) == e.cls \in {"FileHandlerException", "FileNotFound", "FileCorruptedError"}

\* IOError is OSError; these are the subclasses open() raises here.
IsIOError(e) == e.cls \in {"FileNotFoundError", "PermissionError"}

-----------------------------------------------------------------------------
(* xml.etree.ElementTree, as the two calls of the source use it:            *)
(* ElementTree(root).write(path, encoding="utf-8", xml_declaration=True)     *)
(* and ET.parse(path).getroot(). A file holds the serialized form, in which  *)
(* a character is one token ("&lt;" is one token).                           *)

\* Names the XML parser accepts: ElementTree writes a tag as it is given,
\* and "<a b />" is not well-formed.
IsXmlName(n) == n \notin {"a b", "", "<none>"}

\* _escape_cdata: the markup characters of a text become entities; every other
\* character, a carriage return included, is written as it is.
escape_cdata_char(c) ==
    CASE c = "<" -> "&lt;"
      [] c = "&" -> "&amp;"
      [] OTHER   -> c

\* _escape_attrib: as _escape_cdata, and line breaks become character references.
escape_attrib_char(c) ==
    CASE c = "<"  -> "&lt;"
      [] c = "&"  -> "&amp;"
      [] c = "CR" -> "&#13;"
      [] c = "LF" -> "&#10;"
      [] OTHER    -> c

\* The parser on a token of character data: entities and character references
\* are decoded, and a literal carriage return is read as a line feed (XML 2.11).
parse_cdata_token(t) ==
    CASE t = "&lt;"  -> "<"
      [] t = "&amp;" -> "&"
      [] t = "&#13;" -> "CR"
      [] t = "&#10;" -> "LF"
      [] t = "CR"    -> "LF"
      [] OTHER       -> t

\* The parser on a token of an attribute value: as character data, but a literal
\* line break is normalised to a space (XML 3.3.3).
parse_attrib_token(t) ==
    CASE t = "&lt;"  -> "<"
      [] t = "&amp;" -> "&"
      [] t = "&#13;" -> "CR"
      [] t = "&#10;" -> "LF"
      [] t \in {"CR", "LF"} -> " "
      [] OTHER       -> t

_escape_cdata(text) == [i \in 1..Len(text) |-> escape_cdata_char(text[i])]
_escape_attrib(text) == [i \in 1..Len(text) |-> escape_attrib_char(text[i])]
parse_cdata(content) == [i \in 1..Len(content) |-> parse_cdata_token(content[i])]
parse_attrib(content) == [i \in 1..Len(content) |-> parse_attrib_token(content[i])]

\* A serialized element: "short" is the form <tag />.
Serialized(name, attrs, short, content, children) ==
    [name |-> name, attrs |-> attrs, short |-> short, content |-> content,
     children |-> children]

NoSerialized == Serialized("<none>", {}, TRUE, <<>>, <<>>)

\* _serialize_xml: "<tag", the attributes, then either ">text children </tag>"
\* when the element has a non-empty text or children, or " />".
RECURSIVE serialize_xml(_)
serialize_xml(elem) ==
    LET hasText == elem.text # None /\ elem.text # <<>>
        attrs   == {<<kv[1], _escape_attrib(kv[2])>> : kv \in elem.attrib}
    IN  IF hasText \/ Len(elem.children) > 0
        THEN Serialized(elem.tag, attrs, FALSE,
                        IF hasText THEN _escape_cdata(elem.text) ELSE <<>>,
                        [i \in 1..Len(elem.children) |-> serialize_xml(elem.children[i])])
        ELSE Serialized(elem.tag, attrs, TRUE, <<>>, <<>>)

\* Whether expat accepts the serialized element: every tag and attribute name
\* is an XML name and no text holds a raw "<" or "&".
RECURSIVE well_formed(_)
well_formed(s) ==
    /\ IsXmlName(s.name)
    /\ \A kv \in s.attrs : IsXmlName(kv[1])
    /\ \A i \in 1..Len(s.content) : s.content[i] \notin {"<", "&"}
    /\ \A i \in 1..Len(s.children) : well_formed(s.children[i])

\* TreeBuilder: the element a well-formed serialized element is parsed to. An
\* element with no character data has text None.
RECURSIVE build(_)
build(s) ==
    Element(s.name,
            {<<kv[1], parse_attrib(kv[2])>> : kv \in s.attrs},
            IF s.content = <<>> THEN None ELSE parse_cdata(s.content),
            [i \in 1..Len(s.children) |-> build(s.children[i])])

\* What a file holds: an XML document (the declaration and a root), text that is
\* not XML ("<tag_without_closing_tag"), or a document declaring an encoding the
\* parser does not know (<?xml version="1.0" encoding="foo"?>).
Xml(root) == [fmt |-> "xml", root |-> root]
NotXml == [fmt |-> "text", root |-> NoSerialized]
UnknownEncoding == [fmt |-> "unknown-encoding", root |-> NoSerialized]

\* A file: absent, or present with a mode ("rw", "ro": not writable, "none": not
\* readable either) and its data.
Absent == [kind |-> "absent", mode |-> "", data |-> NotXml]
File(mode, data) == [kind |-> "file", mode |-> mode, data |-> data]

\* os.path.exists
exists(files, path) == files[path].kind # "absent"

\* What a library call gives back: it returned a value or raised, and the file
\* system it left.
Outcome(status, value, exc, files) ==
    [status |-> status, value |-> value, exc |-> exc, fs |-> files]

\* ET.parse(path).getroot(): open() raises an OSError for a missing or unreadable
\* file; the parser raises ParseError for text that is not well-formed, and
\* LookupError for an encoding it does not know.
ET_parse(files, path) ==
    LET f == files[path]
        raise(cls) == Outcome("raise", NoElement, Exception(cls, path, "", "", "ET.parse"), files)
    IN  CASE f.kind = "absent"                 -> raise("FileNotFoundError")
          [] f.kind # "absent" /\ f.mode = "none" -> raise("PermissionError")
          [] OTHER ->
               CASE f.data.fmt = "unknown-encoding" -> raise("LookupError")
                 [] f.data.fmt = "text"             -> raise("ParseError")
                 [] OTHER -> IF well_formed(f.data.root)
                             THEN Outcome("return", build(f.data.root), NoException, files)
                             ELSE raise("ParseError")

\* ElementTree(root).write(path, ...): open(path, "wb") creates or truncates the
\* file, or raises an OSError when the file is not writable; then the
\* declaration and the serialized root are written.
ET_write(files, path, root) ==
    LET f == files[path]
    IN  IF f.kind # "absent" /\ f.mode # "rw"
        THEN Outcome("raise", NoElement, Exception("PermissionError", path, "", "", "ET.write"), files)
        ELSE Outcome("return", NoElement, NoException,
                     [files EXCEPT ![path] = File("rw", Xml(serialize_xml(root)))])

-----------------------------------------------------------------------------
(* logging: the one logger 'FileLogger' and its handlers *)

\* Logger.callHandlers: a record goes to every handler attached to the logger
\* (the root logger has none); with no handler at all, logging.lastResort
\* prints records of level WARNING and above to stderr.
callHandlers(level, hs) ==
    IF hs # <<>> THEN hs
    ELSE IF level = "ERROR" THEN <<"lastResort">> ELSE <<>>

\* A line the wrapper logs: its level and kind, the path and method it names,
\* the exception it reports (NoException on success) and the handlers that
\* wrote it.
Line(level, kind, path, method, exc, hs) ==
    [level |-> level, kind |-> kind, path |-> path, method |-> method,
     exc |-> exc, sinks |-> callHandlers(level, hs)]

\* What setup_logger leaves: it returned or raised, the logger's handlers, and
\* whether the log file exists.
SetupOutcome(status, exc, hs, lf) ==
    [status |-> status, exc |-> exc, handlers |-> hs, logFile |-> lf]

\* setup_logger(mode), lines 37-58, in a namespace binding the names g.
\* Line 48 clears the handlers; line 51 binds handler to a StreamHandler for
\* 'console'; line 52, which no else guards, rebinds it to a FileHandler on
\* LOG_FILE (opening the file); line 54 reads LOG_FORMAT; line 56 attaches.
setup_logger(mode, hs, g, lf) ==
    LET cleared == IF hs # <<>> THEN <<>> ELSE hs
        line51  == IF mode = "console" THEN "StreamHandler" ELSE "<unbound>"
        handler == "FileHandler"
        NameError(name) == Exception("NameError", "", "", name, "setup_logger")
    IN  IF "LOG_FILE" \notin g
        THEN SetupOutcome("raise", NameError("LOG_FILE"), cleared, lf)
        ELSE IF "LOG_FORMAT" \notin g
        THEN SetupOutcome("raise", NameError("LOG_FORMAT"), cleared, TRUE)
        ELSE SetupOutcome("return", NoException, Append(cleared, handler), TRUE)

\* The mode each method is decorated with (lines 105, 121, 134).
DecoratedMode(method) ==
    CASE method = "read_file"      -> "console"
      [] method = "write_file"     -> "file"
      [] method = "append_to_file" -> "file"

\* The class body of XMLHandler, lines 91-148: the three decorator expressions
\* call logged(FileHandlerException, mode), and each calls setup_logger (line
\* 69); the first that raises ends the module body.
RECURSIVE class_body(_, _, _, _)
class_body(methods, hs, g, lf) ==
    IF methods = <<>> THEN SetupOutcome("return", NoException, hs, lf)
    ELSE LET o == setup_logger(DecoratedMode(Head(methods)), hs, g, lf)
         IN  IF o.status = "raise" THEN o
             ELSE class_body(Tail(methods), o.handlers, g, o.logFile)

-----------------------------------------------------------------------------
(* The decorator and the methods of XMLHandler *)

\* What a method call gives back: it returned a value or raised, the file system
\* it left, the lines logged during it, and the wrapped invocations that ended
\* during it, in the order they ended.
Result(status, value, exc, files, lines, invocations) ==
    [status |-> status, value |-> value, exc |-> exc, fs |-> files,
     lines |-> lines, invocations |-> invocations]

Return(value, files) == Result("return", value, NoException, files, <<>>, <<>>)
Raise(exc, files)    == Result("raise", NoElement, exc, files, <<>>, <<>>)

\* wrapper with the raise of line 84 left out: the exception is logged and the
\* call returns None.
wrapper_suppresses(method, file_path, hs, res) ==
    IF res.status = "return"
    THEN [res EXCEPT !.lines = Append(@, Line("INFO", "completed", file_path, method, NoException, hs))]
    ELSE IF IsFileHandlerException(res.exc)
    THEN [res EXCEPT !.status = "return", !.exc = NoException,
                     !.lines = Append(@, Line("ERROR", "caused", file_path, method, res.exc, hs))]
    ELSE res

\* wrapper with the logger.error of line 83 left out.
wrapper_silent_on_error(method, file_path, hs, res) ==
    IF res.status = "return"
    THEN [res EXCEPT !.lines = Append(@, Line("INFO", "completed", file_path, method, NoException, hs))]
    ELSE res

\* wrapper, lines 73-84, around a call of func that ended as res: a normal
\* return is logged with logger.info and returned; an instance of
\* exception_class (FileHandlerException at all three uses) is logged with
\* logger.error and re-raised by the bare raise; anything else passes through.
wrapper(method, file_path, hs, res) ==
    IF res.status = "return"
    THEN [res EXCEPT !.lines = Append(@, Line("INFO", "completed", file_path, method, NoException, hs))]
    ELSE IF IsFileHandlerException(res.exc)
    THEN [res EXCEPT !.lines = Append(@, Line("ERROR", "caused", file_path, method, res.exc, hs))]
    ELSE res

\* One wrapped invocation, as it ended: what func did, what the wrapper did, and
\* the lines the wrapper itself logged.
Invocation(method, res, out) ==
    [method |-> method,
     inner  |-> [status |-> res.status, value |-> res.value, exc |-> res.exc],
     outer  |-> [status |-> out.status, value |-> out.value, exc |-> out.exc],
     lines  |-> SubSeq(out.lines, Len(res.lines) + 1, Len(out.lines))]

\* A call of a decorated method: the wrapper around func's result, recorded.
decorated(method, file_path, hs, res) ==
    LET out == wrapper(method, file_path, hs, res)
    IN  [out EXCEPT !.invocations = Append(res.invocations, Invocation(method, res, out))]

\* A handler object: its file_path.
Handler(file_path) == [file_path |-> file_path]
NoHandler == Handler("<none>")

\* __init__ with the check of lines 100-101 left out.
XMLHandler_init_unchecked(files, file_path) ==
    [status |-> "return", exc |-> NoException, self |-> Handler(file_path)]

\* XMLHandler.__init__, lines 92-103: stores the path, then raises FileNotFound
\* when nothing exists at it.
XMLHandler_init(files, file_path) ==
    LET self == Handler(file_path)
    IN  IF ~exists(files, file_path)
        THEN [status |-> "raise", exc |-> FileNotFound(file_path), self |-> NoHandler]
        ELSE [status |-> "return", exc |-> NoException, self |-> self]

\* read_file, lines 106-119, undecorated: ParseError and IOError become
\* FileCorruptedError; any other exception of ET.parse passes through.
read_file_body(files, self) ==
    LET o == ET_parse(files, self.file_path)
    IN  IF o.status = "return" THEN Return(o.value, o.fs)
        ELSE IF o.exc.cls = "ParseError"
        THEN Raise(FileCorruptedError(self.file_path, "invalid XML", o.exc.cls, "read_file"), o.fs)
        ELSE IF IsIOError(o.exc)
        THEN Raise(FileCorruptedError(self.file_path, "access/read error", o.exc.cls, "read_file"), o.fs)
        ELSE Raise(o.exc, o.fs)

\* self.read_file(): the decorated method.
read_file(files, hs, self) ==
    decorated("read_file", self.file_path, hs, read_file_body(files, self))

\* write_file with the tree.write of line 129 left out.
write_file_body_skips_write(files, self, root_element) == Return(NoElement, files)

\* write_file, lines 122-132, undecorated: IOError becomes FileCorruptedError.
write_file_body(files, self, root_element) ==
    LET o == ET_write(files, self.file_path, root_element)
    IN  IF o.status = "return" THEN Return(NoElement, o.fs)
        ELSE IF IsIOError(o.exc)
        THEN Raise(FileCorruptedError(self.file_path, "write error", o.exc.cls, "write_file"), o.fs)
        ELSE Raise(o.exc, o.fs)

\* self.write_file(root): the decorated method.
write_file(files, hs, self, root_element) ==
    decorated("write_file", self.file_path, hs, write_file_body(files, self, root_element))

\* Python's "no argument given" for attributes (the default None).
NoAttributes == {<<"None", <<>>>>}

\* The element lines 142-144 construct.
new_element(new_element_tag, attributes, text_content) ==
    Element(new_element_tag,
            IF attributes # NoAttributes THEN attributes ELSE {},
            IF text_content # None THEN text_content ELSE None,
            <<>>)

\* append_to_file with root.insert(0, new_element) for line 146.
append_to_file_body_inserts_first(files, hs, self, new_element_tag, attributes, text_content) ==
    LET r == read_file(files, hs, self)
    IN  IF r.status = "raise" THEN r
        ELSE LET root == [r.value EXCEPT !.children =
                             <<new_element(new_element_tag, attributes, text_content)>> \o @]
                 w    == write_file(r.fs, hs, self, root)
             IN  Result(w.status, NoElement, w.exc, w.fs,
                        r.lines \o w.lines, r.invocations \o w.invocations)

\* append_to_file calling a write_file that is not decorated.
append_to_file_body_plain_write(files, hs, self, new_element_tag, attributes, text_content) ==
    LET r == read_file(files, hs, self)
    IN  IF r.status = "raise" THEN r
        ELSE LET root == [r.value EXCEPT !.children =
                             Append(@, new_element(new_element_tag, attributes, text_content))]
                 w    == write_file_body(r.fs, self, root)
             IN  Result(w.status, NoElement, w.exc, w.fs,
                        r.lines \o w.lines, r.invocations \o w.invocations)

\* append_to_file, lines 135-148, undecorated: the decorated read_file, the new
\* element appended to the root, then the decorated write_file. An exception of
\* either call ends it; the lines and invocations of the calls made are kept.
append_to_file_body(files, hs, self, new_element_tag, attributes, text_content) ==
    LET r == read_file(files, hs, self)
    IN  IF r.status = "raise" THEN r
        ELSE LET root == [r.value EXCEPT !.children =
                             Append(@, new_element(new_element_tag, attributes, text_content))]
                 w    == write_file(r.fs, hs, self, root)
             IN  Result(w.status, NoElement, w.exc, w.fs,
                        r.lines \o w.lines, r.invocations \o w.invocations)

\* self.append_to_file(...): the decorated method.
append_to_file(files, hs, self, new_element_tag, attributes, text_content) ==
    decorated("append_to_file", self.file_path, hs,
              append_to_file_body(files, hs, self, new_element_tag, attributes, text_content))

-----------------------------------------------------------------------------
(* The inputs the host and the environment choose from *)

\* The namespaces the module body may be run in: the names among LOG_FILE and
\* LOG_FORMAT that it already binds. "python lab6.py" binds neither (the source
\* assigns them in the body of class FileCorruptedError, lines 30-31, where
\* setup_logger cannot see them).
InitGlobals == SUBSET {"LOG_FILE", "LOG_FORMAT"}

Modes == {"console", "file"}

\* The arguments the host passes to append_to_file: a tag, attributes absent or
\* with characters that need escaping, and a text that is absent, empty, with
\* a character that needs escaping, or with a carriage return; and one tag that
\* is no XML name.
AttributeArgs == {NoAttributes, {<<"id", <<"1", "<", "CR">>>>}}
TextArgs == {None, <<>>, <<"New Value", "<">>, <<"CR">>}
ElementArgs ==
    ({"data_item"} \X AttributeArgs \X TextArgs) \cup {<<"a b", NoAttributes, None>>}

\* The document of lines 151-154.
xml_content ==
    Element("settings", {}, None,
            <<Element("param", {<<"name", <<"version">>>>}, <<"1.0">>, <<>>)>>)

\* What the environment puts in a file: the document, the text of line 156, or
\* a document in an encoding the parser does not know.
EnvData == {Xml(serialize_xml(xml_content)), NotXml, UnknownEncoding}

\* The roots the host passes to write_file, besides what read_file gave it.
HostRoots ==
    {Element("settings", {}, None, <<>>)} \cup
    {Element("settings", {}, None, <<new_element(e[1], e[2], e[3])>>) : e \in ElementArgs}

\* The number of children of the document at path (0 when there is none).
ChildCount(files, path) ==
    IF files[path].kind = "file" /\ files[path].data.fmt = "xml"
    THEN Len(files[path].data.root.children) ELSE 0

-----------------------------------------------------------------------------
(* The state machine *)

\* The record of the host's last call.
Call(op, self, path, tag, attributes, text, root, mode, pre, res) ==
    [op |-> op, self |-> self, path |-> path, tag |-> tag, attributes |-> attributes,
     text |-> text, root |-> root, mode |-> mode, pre |-> pre, res |-> res]

NoCall(files) ==
    Call("none", NoHandler, "", "", NoAttributes, None, NoElement, "", files,
         Return(NoElement, files))

Init ==
    /\ loaded = "no"
    /\ globals = {}
    /\ handlers = <<>>
    /\ logFile \in BOOLEAN
    /\ fs = [p \in Paths |-> Absent]
    /\ handles = {}
    /\ last = NoCall(fs)

\* The module body runs in a namespace binding g: lines 6-7 remove the log
\* file, then the class body runs.
LoadModule(g) ==
    /\ loaded = "no"
    /\ LET o == class_body(<<"read_file", "write_file", "append_to_file">>, handlers, g, FALSE)
       IN  /\ loaded' = IF o.status = "return" THEN "ok" ELSE "crashed"
           /\ handlers' = o.handlers
           /\ logFile' = o.logFile
           /\ last' = Call("module", NoHandler, "", "", NoAttributes, None, NoElement, "", fs,
                           Result(o.status, NoElement, o.exc, fs, <<>>, <<>>))
    /\ globals' = g
    /\ UNCHANGED <<fs, handles>>

\* The host calls setup_logger(mode); the function is defined (line 37) before
\* the class body runs.
SetupLogger(mode) ==
    /\ loaded # "no"
    /\ LET o == setup_logger(mode, handlers, globals, logFile)
       IN  /\ handlers' = o.handlers
           /\ logFile' = o.logFile
           /\ last' = Call("setup_logger", NoHandler, "", "", NoAttributes, None, NoElement, mode, fs,
                           Result(o.status, NoElement, o.exc, fs, <<>>, <<>>))
    /\ UNCHANGED <<loaded, globals, fs, handles>>

\* The host calls XMLHandler(path).
Construct(path) ==
    /\ loaded = "ok"
    /\ LET o == XMLHandler_init(fs, path)
       IN  /\ handles' = IF o.status = "return" THEN handles \cup {o.self} ELSE handles
           /\ last' = Call("__init__", o.self, path, "", NoAttributes, None, NoElement, "", fs,
                           Result(o.status, NoElement, o.exc, fs, <<>>, <<>>))
    /\ UNCHANGED <<loaded, globals, handlers, logFile, fs>>

\* The host calls h.read_file().
ReadFile(h) ==
    /\ loaded = "ok"
    /\ h \in handles
    /\ LET res == read_file(fs, handlers, h)
       IN  /\ fs' = res.fs
           /\ last' = Call("read_file", h, h.file_path, "", NoAttributes, None, NoElement, "", fs, res)
    /\ UNCHANGED <<loaded, globals, handlers, logFile, handles>>

\* The host calls h.write_file(root), with a root of its own or the root its
\* last read_file returned.
WriteFile(h, root) ==
    /\ loaded = "ok"
    /\ h \in handles
    /\ Len(root.children) <= MaxChildren
    /\ LET res == write_file(fs, handlers, h, root)
       IN  /\ fs' = res.fs
           /\ last' = Call("write_file", h, h.file_path, "", NoAttributes, None, root, "", fs, res)
    /\ UNCHANGED <<loaded, globals, handlers, logFile, handles>>

\* The host calls h.append_to_file(tag, attributes, text).
AppendToFile(h, tag, attributes, text) ==
    /\ loaded = "ok"
    /\ h \in handles
    /\ ChildCount(fs, h.file_path) < MaxChildren
    /\ LET res == append_to_file(fs, handlers, h, tag, attributes, text)
       IN  /\ fs' = res.fs
           /\ last' = Call("append_to_file", h, h.file_path, tag, attributes, text, NoElement, "", fs, res)
    /\ UNCHANGED <<loaded, globals, handlers, logFile, handles>>

\* The environment writes a file.
EnvWrite(path, data) ==
    /\ fs' = [fs EXCEPT ![path] = File("rw", data)]
    /\ last' = NoCall(fs')
    /\ UNCHANGED <<loaded, globals, handlers, logFile, handles>>

\* The environment deletes a file.
EnvDelete(path) ==
    /\ exists(fs, path)
    /\ fs' = [fs EXCEPT ![path] = Absent]
    /\ last' = NoCall(fs')
    /\ UNCHANGED <<loaded, globals, handlers, logFile, handles>>

\* The environment changes the mode of a file.
EnvChmod(path, mode) ==
    /\ exists(fs, path)
    /\ fs[path].mode # mode
    /\ fs' = [fs EXCEPT ![path].mode = mode]
    /\ last' = NoCall(fs')
    /\ UNCHANGED <<loaded, globals, handlers, logFile, handles>>

Next ==
    \/ \E g \in InitGlobals : LoadModule(g)
    \/ \E mode \in Modes : SetupLogger(mode)
    \/ \E path \in Paths : Construct(path)
    \/ \E h \in handles : ReadFile(h)
    \/ \E h \in handles : \E root \in HostRoots : WriteFile(h, root)
    \/ \E h \in handles : last.op = "read_file" /\ last.res.status = "return" /\ WriteFile(h, last.res.value)
    \/ \E h \in handles : \E e \in ElementArgs : AppendToFile(h, e[1], e[2], e[3])
    \/ \E path \in EnvPaths : \E data \in EnvData : EnvWrite(path, data)
    \/ \E path \in EnvPaths : EnvDelete(path)
    \/ \E path \in EnvPaths : \E mode \in {"rw", "ro", "none"} : EnvChmod(path, mode)

Spec == Init /\ [][Next]_vars

-----------------------------------------------------------------------------
(* What the claims speak of *)

Methods == {"read_file", "write_file", "append_to_file"}

\* The host's last call was op and returned.
Returned(op) == last.op = op /\ last.res.status = "return"

\* The host's last call was op and raised.
Raised(op) == last.op = op /\ last.res.status = "raise"

\* Read() right after the last call, on the handler the call was made on.
ReadNext == read_file(fs, handlers, last.self)

\* The root of the document that was on disk when the last call began.
RootBefore == ET_parse(last.pre, last.path).value

\* A text as an XML parser gives it back: an empty text is no text, and a
\* carriage return is a line feed.
AsReadBack(text) ==
    IF text = None \/ text = <<>> THEN None
    ELSE [i \in 1..Len(text) |-> IF text[i] = "CR" THEN "LF" ELSE text[i]]

\* A tree with every text as an XML parser gives it back.
RECURSIVE TreeAsReadBack(_)
TreeAsReadBack(e) ==
    Element(e.tag, e.attrib, AsReadBack(e.text),
            [i \in 1..Len(e.children) |-> TreeAsReadBack(e.children[i])])

\* Every tag and attribute name of the tree is an XML name.
RECURSIVE HasXmlNames(_)
HasXmlNames(e) ==
    /\ IsXmlName(e.tag)
    /\ \A kv \in e.attrib : IsXmlName(kv[1])
    /\ \A i \in 1..Len(e.children) : HasXmlNames(e.children[i])

\* The attributes append_to_file was given ({} when it was given none).
GivenAttributes == IF last.attributes = NoAttributes THEN {} ELSE last.attributes

\* The methods the lines of the last call name, in order.
LineMethods == [i \in 1..Len(last.res.lines) |-> last.res.lines[i].method]

\* The error lines of the last call, in order.
ErrorLines == SelectSeq(last.res.lines, LAMBDA l : l.level = "ERROR")

\* The handler kind a mode selects: a StreamHandler for 'console', a FileHandler
\* for 'file'.
HandlerOf(mode) == IF mode = "console" THEN "StreamHandler" ELSE "FileHandler"

\* The internal read_file of the last append_to_file raised.
InternalReadFailed ==
    /\ Raised("append_to_file")
    /\ last.res.invocations[1].method = "read_file"
    /\ last.res.invocations[1].outer.status = "raise"

-----------------------------------------------------------------------------
(* C1 *)

\* C1: XMLHandler(path) raises FileNotFound exactly when nothing exists at path
\* when it is called, raises no other exception, touches no file, and on an
\* existing path returns a handler whose file_path is the argument.
C1_ConstructRaisesFileNotFoundIffAbsent ==
    last.op = "__init__" =>
        /\ (last.res.status = "raise") <=> ~exists(last.pre, last.path)
        /\ last.res.status = "raise" =>
              /\ last.res.exc.cls = "FileNotFound"
              /\ last.res.exc.path = last.path
        /\ last.res.status = "return" =>
              /\ last.self.file_path = last.path
              /\ last.self \in handles
        /\ fs = last.pre

\* C1 witness: a construction failed on a path an earlier construction succeeded
\* on (the file was deleted in between).
C1_Witness ==
    /\ Raised("__init__")
    /\ Handler(last.path) \in handles

-----------------------------------------------------------------------------
(* C2 *)

\* C2: whatever state the file is in, read_file returns the parsed root or raises
\* FileCorruptedError; it never raises FileNotFound or a raw parse or I/O error.
C2_ReadReturnsOrRaisesFileCorruptedError ==
    last.op = "read_file" =>
        \/ /\ last.res.status = "return"
           /\ last.res.value = RootBefore
        \/ /\ last.res.status = "raise"
           /\ last.res.exc.cls = "FileCorruptedError"

-----------------------------------------------------------------------------
(* C3 *)

-----------------------------------------------------------------------------
(* C4 *)

\* C4: every wrapped invocation that returns is logged by its wrapper with one
\* success line naming the handler's path and the method, every one that raises
\* a FileHandlerException with one error line naming the exception; and the
\* wrapper gives its caller what the method gave it: the same return value, or
\* the same exception.
C4_WrapperLogsOnceAndIsTransparent ==
    \A i \in 1..Len(last.res.invocations) :
        LET inv == last.res.invocations[i]
        IN  /\ inv.outer = inv.inner
            /\ inv.inner.status = "return" =>
                  /\ Len(inv.lines) = 1
                  /\ inv.lines[1].level = "INFO"
                  /\ inv.lines[1].kind = "completed"
                  /\ inv.lines[1].path = last.self.file_path
                  /\ inv.lines[1].method = inv.method
            /\ inv.inner.status = "raise" /\ IsFileHandlerException(inv.inner.exc) =>
                  /\ Len(inv.lines) = 1
                  /\ inv.lines[1].level = "ERROR"
                  /\ inv.lines[1].kind = "caused"
                  /\ inv.lines[1].path = last.self.file_path
                  /\ inv.lines[1].method = inv.method
                  /\ inv.lines[1].exc = inv.inner.exc

\* C4 witness: a wrapped write_file raised FileCorruptedError, and a wrapped
\* read_file returned, in one call.
C4_Witness ==
    /\ \E i \in 1..Len(last.res.invocations) :
          /\ last.res.invocations[i].method = "write_file"
          /\ last.res.invocations[i].inner.status = "raise"
          /\ last.res.invocations[i].inner.exc.cls = "FileCorruptedError"
    /\ \E i \in 1..Len(last.res.invocations) :
          /\ last.res.invocations[i].method = "read_file"
          /\ last.res.invocations[i].inner.status = "return"

-----------------------------------------------------------------------------
(* C5 *)

\* C5 as claimed: a FileHandlerException raised during a call of read_file,
\* write_file or append_to_file is logged with exactly one error line, which
\* names it, before the caller receives it.
C5_EachFailureLoggedOnce ==
    last.op \in Methods /\ last.res.status = "raise" /\ IsFileHandlerException(last.res.exc) =>
        /\ Len(ErrorLines) = 1
        /\ ErrorLines[1].exc = last.res.exc

\* C5 as amended: the exception is logged once by each wrapped call it passes
\* through: one error line for read_file or write_file called by the host, two
\* for append_to_file (the line of the inner method that raised, then the line
\* of append_to_file); every such line names the exception, and the caller
\* receives the exception the inner method raised.
C5_EachFailureLoggedOncePerWrappedCall ==
    last.op \in Methods /\ last.res.status = "raise" /\ IsFileHandlerException(last.res.exc) =>
        /\ \A i \in 1..Len(ErrorLines) : ErrorLines[i].exc = last.res.exc
        /\ last.res.exc.raisedBy \in {"read_file", "write_file"}
        /\ last.op # "append_to_file" =>
              /\ Len(ErrorLines) = 1
              /\ ErrorLines[1].method = last.op
              /\ last.res.exc.raisedBy = last.op
        /\ last.op = "append_to_file" =>
              /\ Len(ErrorLines) = 2
              /\ ErrorLines[1].method = last.res.exc.raisedBy
              /\ ErrorLines[2].method = "append_to_file"

\* C5 witness: append_to_file raised the FileCorruptedError of its write_file.
C5_Witness ==
    /\ Raised("append_to_file")
    /\ last.res.exc.cls = "FileCorruptedError"
    /\ last.res.exc.raisedBy = "write_file"

-----------------------------------------------------------------------------
(* C6 *)

\* C6 as claimed: a successful append_to_file logs exactly two success lines,
\* the line of read_file and then the line of append_to_file.
C6_AppendLogsReadThenAppend ==
    Returned("append_to_file") =>
        /\ LineMethods = <<"read_file", "append_to_file">>
        /\ \A i \in 1..Len(last.res.lines) : last.res.lines[i].kind = "completed"

\* C6 as amended: a successful append_to_file logs exactly three success lines:
\* the line of read_file, the line of write_file, then the line of
\* append_to_file.
C6_AppendLogsReadWriteAppend ==
    Returned("append_to_file") =>
        /\ LineMethods = <<"read_file", "write_file", "append_to_file">>
        /\ \A i \in 1..Len(last.res.lines) :
              /\ last.res.lines[i].kind = "completed"
              /\ last.res.lines[i].level = "INFO"
              /\ last.res.lines[i].path = last.self.file_path

\* C6 witness: append_to_file returned and the file changed.
C6_Witness ==
    /\ Returned("append_to_file")
    /\ fs # last.pre
    /\ Len(last.res.lines) > 0

-----------------------------------------------------------------------------
(* C7 *)

\* C7: every line of a method is written by the handler of the mode the method
\* was decorated with, and by no other: a StreamHandler (the console) for
\* read_file, a FileHandler (the log file) for write_file and append_to_file.
C7_LinesGoToTheDecoratedSink ==
    \A i \in 1..Len(last.res.lines) :
        last.res.lines[i].sinks = <<HandlerOf(DecoratedMode(last.res.lines[i].method))>>

-----------------------------------------------------------------------------
(* C8 *)

\* C8: every call of setup_logger, those of the class body included, returns,
\* and leaves the logger with exactly one handler, so that a message logged
\* next is written exactly once.
C8_SetupLoggerReturnsWithOneHandler ==
    last.op \in {"module", "setup_logger"} =>
        /\ last.res.status = "return"
        /\ Len(handlers) = 1
        /\ Len(callHandlers("INFO", handlers)) = 1

-----------------------------------------------------------------------------
(* C9 *)

\* The last call wrote back the tree read_file gave for the document on disk.
WroteBack ==
    /\ last.op = "write_file"
    /\ ET_parse(last.pre, last.path).status = "return"
    /\ last.root = RootBefore

-----------------------------------------------------------------------------
(* C10 *)

\* C10: when append_to_file fails because its read_file failed, write_file was
\* not invoked, the file system is as it was, and the caller receives the
\* FileCorruptedError that read_file raised.
C10_FailedReadLeavesFileAndRaisesFileCorruptedError ==
    InternalReadFailed =>
        /\ \A i \in 1..Len(last.res.invocations) : last.res.invocations[i].method # "write_file"
        /\ fs = last.pre
        /\ last.res.exc = last.res.invocations[1].inner.exc
        /\ last.res.exc.cls = "FileCorruptedError"

=============================================================================
